---- MODULE Spec2Model ----
(***************************************************************************)
(* Abundant: the version chain of one archive, as seen by one ArchiveAgent *)
(* driven from the command line interface.                                 *)
(*                                                                         *)
(* The file system is modelled as trees: a version directory (or the      *)
(* source directory) holds regular files at relative paths and            *)
(* sub-directories.  The persisted version_config.json is the sequence    *)
(* `records`; `versions` is ArchiveAgent.versions, the in-memory chain of *)
(* VersionAgent handles, each with its cached copy of its record.         *)
(* Around the archive, `archive_records` is the registry that              *)
(* MasterConfigAgent keeps and `archive_dirs` the archive directories.    *)
(***************************************************************************)
EXTENDS Integers, Sequences, FiniteSets, TLC

VARIABLES
    records,                  \* version_config['VersionRecords'] on disk, in file order
    store,                    \* archive/<uuid> directories: uuid -> tree
    versions,                 \* ArchiveAgent.versions (handles, sorted at load)
    version_selected,         \* CLI.version_selected: a handle, or NoVersion
    selected_live,            \* version_selected is the very object held in `versions`
    source,                   \* the source directory tree, as the last snapshot read it
    now,                      \* last value returned by time.time()
    max_number_of_versions,   \* archive_config['MaxNumberOfVersions']
    last,                     \* the command that ran last: its argument, error and return value
    frame,                    \* a call in progress: a migration or a files generator, or NoFrame
    archive_records,          \* master_config['ArchiveRecords'], in file order
    archive_dirs              \* the archive directories: path -> what the directory holds

vars == <<records, store, versions, version_selected, selected_live, source,
          now, max_number_of_versions, last, frame, archive_records, archive_dirs>>

----------------------------------------------------------------------------
(* Bounds of the model *)

MaxTime == 3          \* time.time() values used: at most MaxTime versions are created
MaxVersionsLimit == 3 \* largest MaxNumberOfVersions explored

UUIDs == 1 .. (MaxVersionsLimit + 1)   \* values uuid4() may return; 0 stands for None

\* Relative paths in os.walk order (the files of the root before those of "d").
\* The root holds two files, which one os.walk step lists together.
Paths == <<"a.txt", "c.txt", "d/b.txt">>
PathSet == {Paths[i] : i \in 1 .. Len(Paths)}
Dirs == {"d"}
Parent(p) == IF p = "d/b.txt" THEN "d" ELSE "."

\* File contents: a.txt takes three, the other files one.
Contents == {"x", "y", "z"}
ContentsOf(p) == IF p = "a.txt" THEN Contents ELSE {"x"}
Absent == "-"

----------------------------------------------------------------------------
(* Trees *)

EmptyFiles == [p \in PathSet |-> Absent]
NoDir == [exists |-> FALSE, files |-> EmptyFiles, dirs |-> {}]
EmptyDir == [exists |-> TRUE, files |-> EmptyFiles, dirs |-> {}]

\* A directory tree that exists: a file is inside a directory that exists.
Trees ==
    {t \in [exists : {TRUE}, files : [PathSet -> Contents \cup {Absent}], dirs : SUBSET Dirs] :
        \A p \in PathSet :
            /\ t.files[p] \in ContentsOf(p) \cup {Absent}
            /\ t.files[p] # Absent /\ Parent(p) # "." => Parent(p) \in t.dirs}

\* The source trees a snapshot is taken of: every directory holds a file (a
\* version directory gets its empty directories from skipped files).  c.txt
\* is in no tree the user leaves for a later snapshot.
SourceTrees ==
    {t \in Trees :
        /\ \A d \in t.dirs : \E p \in PathSet : Parent(p) = d /\ t.files[p] # Absent
        /\ t.files["c.txt"] = Absent}

\* The source trees with, in addition, the tree of two files in the root
\* directory: a directory that os.walk lists two files of at once.
ListedTrees ==
    SourceTrees \cup
        {[exists |-> TRUE,
          files |-> [p \in PathSet |-> IF Parent(p) = "." THEN "x" ELSE Absent],
          dirs |-> {}]}

\* HashAgent.hash: the digest of a file's content.  A digest is shorter than
\* the content it is taken of: contents "x" and "z" are a colliding pair.
hash(content) == IF content = "z" THEN "h(x)" ELSE IF content = "x" THEN "h(x)" ELSE "h(y)"

----------------------------------------------------------------------------
(* Archive directories and the registry of archives *)

\* The directories given to AbundantAgent.create_archive.  Source directory
\* "S0" does not exist.
ArchiveDirs == {"A1", "A2"}
SourceDirs == {"S1", "S0"}
SourceDirExists(s) == s = "S1"

\* hash.VALID_ALGORITHMS, and a name that is not in it.
VALID_ALGORITHMS == {"md5", "sha1", "sha256", "sha512", "crc32"}
Algorithms == {"md5", "rot13"}

\* ARCHIVE_CONFIG_TEMPLATE; UUID 0 stands for the empty string.
ARCHIVE_CONFIG_TEMPLATE ==
    [SourceDirectory |-> "", HashAlgorithm |-> "", MaxNumberOfVersions |-> 1, UUID |-> 0]

\* An archive directory: whether it exists, the entries under it, and the
\* content of meta/archive_config.json (the template while there is no file).
ConfigFile == "meta/archive_config.json"
NoArchiveDir == [exists |-> FALSE, entries |-> {}, archive_config |-> ARCHIVE_CONFIG_TEMPLATE]
EmptyArchiveDir == [exists |-> TRUE, entries |-> {}, archive_config |-> ARCHIVE_CONFIG_TEMPLATE]

\* The directory as archive.create_archive leaves it.
ArchiveDirOf(uuid, source_dir, algorithm, maximum) ==
    [exists |-> TRUE,
     entries |-> {"archive", "meta", ConfigFile},
     archive_config |-> [SourceDirectory |-> source_dir, HashAlgorithm |-> algorithm,
                         MaxNumberOfVersions |-> maximum, UUID |-> uuid]]

\* The registry and the directories around the one archive whose chain is
\* followed: its record, its directory "A1", and a directory not used yet.
RegisteredRecords == <<[SourceDirectory |-> "S1", ArchiveDirectory |-> "A1", UUID |-> 1]>>
RegisteredDirs(maximum) ==
    [a \in ArchiveDirs |->
        IF a = "A1" THEN ArchiveDirOf(1, "S1", "md5", maximum) ELSE EmptyArchiveDir]

----------------------------------------------------------------------------
(* Handles and the state the operations work on *)

NoRecord == [UUID |-> 0, TimeOfCreation |-> 0, IsBaseVersion |-> FALSE]
NoVersion == [uuid |-> 0, version_config |-> NoRecord]

NoError == "none"

\* No call is in progress.
NoFrame ==
    [kind |-> "none", self |-> 0, next_version |-> 0, base_version |-> 0,
     version_in_work |-> 0, pass |-> "-", dirs |-> <<>>, listed |-> <<>>,
     number_of_file_copied |-> 0, turn |-> 0]

\* The state an operation transforms, and what it raised and returned.
World ==
    [records |-> records, store |-> store, versions |-> versions,
     version_selected |-> version_selected, selected_live |-> selected_live,
     err |-> NoError, ret |-> 0]

Raise(w, e) == [w EXCEPT !.err = e]

----------------------------------------------------------------------------
(* The persisted version records (get_config / create_config) *)

\* get_config(path): the records read from version_config.json.
get_config(w) == w.records

\* get_config(path, save_change=True): the records written back on exit.
save_config(w, recs) == [w EXCEPT !.records = recs]

----------------------------------------------------------------------------
(* VersionAgent and ArchiveAgent: loading the chain *)

HasRecord(recs, u) == \E i \in 1 .. Len(recs) : recs[i].UUID = u
FirstRecord(recs, u) ==
    recs[CHOOSE i \in 1 .. Len(recs) :
            recs[i].UUID = u /\ \A j \in 1 .. (i - 1) : recs[j].UUID # u]

\* VersionAgent.load_config: a copy of the first record with this UUID.
load_config(w, u) == FirstRecord(get_config(w), u)

\* VersionAgent.__init__
VersionAgent(w, u) == [uuid |-> u, version_config |-> load_config(w, u)]

\* get_versions: one handle per record, in file order.
get_versions(w) ==
    [i \in 1 .. Len(get_config(w)) |-> VersionAgent(w, get_config(w)[i].UUID)]

\* list.sort(key=time_of_creation): stable, ascending.
RECURSIVE SortInsert(_, _)
SortInsert(sorted, h) ==
    IF sorted = <<>> THEN <<h>>
    ELSE IF sorted[Len(sorted)].version_config.TimeOfCreation
              <= h.version_config.TimeOfCreation
         THEN Append(sorted, h)
         ELSE Append(SortInsert(SubSeq(sorted, 1, Len(sorted) - 1), h), sorted[Len(sorted)])

RECURSIVE SortPrefix(_, _)
SortPrefix(hs, n) == IF n = 0 THEN <<>> ELSE SortInsert(SortPrefix(hs, n - 1), hs[n])

sort(hs) == SortPrefix(hs, Len(hs))

\* ArchiveAgent.load_versions: every handle is rebuilt from the records, so no
\* handle held from before is in the list any more.  The value of
\* validate_versions() is dropped by the code, so it decides nothing here.
load_versions(w) ==
    [w EXCEPT !.versions = sort(get_versions(w)), !.selected_live = FALSE]

\* ArchiveAgent.validate_versions, as computed (previous_version is never assigned).
validate_versions(hs) ==
    Cardinality({i \in 1 .. Len(hs) : hs[i].version_config.IsBaseVersion}) <= 1

ChainUUIDs(hs) == {hs[i].uuid : i \in 1 .. Len(hs)}

\* ArchiveAgent.get_version: the uuid if a handle of the chain has it, else None (0).
get_version(w, u) == IF u \in ChainUUIDs(w.versions) THEN u ELSE 0

\* ArchiveAgent.base_version / last_version (IndexError on an empty chain: the
\* callers below test for it first).
base_version(w) == w.versions[1]
last_version(w) == w.versions[Len(w.versions)]

FirstIndex(hs, u) ==
    CHOOSE i \in 1 .. Len(hs) : hs[i].uuid = u /\ \A j \in 1 .. (i - 1) : hs[j].uuid # u

\* A variant that follows a link kept from creation, to the version made before:
previous_versionAlt(w, u) ==
    IF Len(w.versions) = 1 \/ base_version(w).uuid = u THEN 0
    ELSE IF u \in ChainUUIDs(w.versions) THEN u - 1
         ELSE 0

\* VersionAgent.previous_version: the uuid of the neighbour, 0 for None.
previous_version(w, u) ==
    IF Len(w.versions) = 1 \/ base_version(w).uuid = u THEN 0
    ELSE IF u \in ChainUUIDs(w.versions)
         THEN w.versions[FirstIndex(w.versions, u) - 1].uuid
         ELSE 0

\* A variant that steps over a version when two come after:
next_versionAlt(w, u) ==
    IF Len(w.versions) = 1 THEN 0
    ELSE IF \E i \in 1 .. (Len(w.versions) - 1) : w.versions[i].uuid = u
         THEN w.versions[IF FirstIndex(w.versions, u) + 2 <= Len(w.versions)
                         THEN FirstIndex(w.versions, u) + 2
                         ELSE FirstIndex(w.versions, u) + 1].uuid
         ELSE 0

\* VersionAgent.next_version
next_version(w, u) ==
    IF Len(w.versions) = 1 THEN 0
    ELSE IF \E i \in 1 .. (Len(w.versions) - 1) : w.versions[i].uuid = u
         THEN w.versions[FirstIndex(w.versions, u) + 1].uuid
         ELSE 0

----------------------------------------------------------------------------
(* Files of a version *)

\* VersionAgent.has_file: os.path.exists of the file inside the version directory.
has_file(w, u, p) == w.store[u].exists /\ w.store[u].files[p] # Absent

FilterPaths(Test(_)) == SelectSeq(Paths, Test)

\* VersionAgent.exact_files: the walk of the version's own directory.
exact_files(w, u) == FilterPaths(LAMBDA p : has_file(w, u, p))

\* VersionAgent._get_previous_version_of_file: nearest older version storing p.
RECURSIVE PreviousWalk(_, _, _)
PreviousWalk(w, candidate, p) ==
    IF candidate = 0 THEN 0
    ELSE IF has_file(w, candidate, p) THEN candidate
    ELSE PreviousWalk(w, previous_version(w, candidate), p)

\* A variant that looks at the version right before only.
get_previous_version_of_fileAlt(w, u, p) ==
    IF previous_version(w, u) # 0 /\ has_file(w, previous_version(w, u), p)
    THEN previous_version(w, u)
    ELSE 0
get_previous_version_of_file(w, u, p) == PreviousWalk(w, previous_version(w, u), p)

\* VersionAgent._get_last_appearance_of_file: walks next_version to the end of
\* the chain and keeps the last version storing p.
RECURSIVE LastWalk(_, _, _, _)
LastWalk(w, version, candidate, p) ==
    IF version = 0 THEN candidate
    ELSE LastWalk(w, next_version(w, version),
                  IF has_file(w, version, p) THEN version ELSE candidate, p)

get_last_appearance_of_file(w, u, p) == LastWalk(w, u, u, p)

Entry(p, u) == [path |-> p, version |-> u]
MapPaths(ps, F(_)) == [i \in 1 .. Len(ps) |-> F(ps[i])]

\* VersionAgent.files, first loop: the files of the base directory.
FilesOfBase(w) ==
    LET base == base_version(w).uuid
    IN  MapPaths(exact_files(w, base),
                 LAMBDA p : Entry(p, get_last_appearance_of_file(w, base, p)))

\* A variant of the second loop that does not leave out the files of the base:
RECURSIVE FilesAddedLaterAlt(_, _)
FilesAddedLaterAlt(w, version_in_work) ==
    LET base == base_version(w).uuid
    IN  IF version_in_work = 0 \/ version_in_work = base THEN <<>>
        ELSE MapPaths(
                 FilterPaths(LAMBDA p :
                     /\ has_file(w, version_in_work, p)
                     /\ get_last_appearance_of_file(w, version_in_work, p) = version_in_work),
                 LAMBDA p : Entry(p, version_in_work))
             \o FilesAddedLaterAlt(w, previous_version(w, version_in_work))

\* A variant of the second loop that walks the version's own directory only:
FilesAddedLaterOwnAlt(w, version_in_work) ==
    LET base == base_version(w).uuid
    IN  IF version_in_work = 0 \/ version_in_work = base THEN <<>>
        ELSE MapPaths(
                 FilterPaths(LAMBDA p :
                     /\ has_file(w, version_in_work, p)
                     /\ ~has_file(w, base, p)
                     /\ get_last_appearance_of_file(w, version_in_work, p) = version_in_work),
                 LAMBDA p : Entry(p, version_in_work))

\* VersionAgent.files, second loop: from the version back to the base.
RECURSIVE FilesAddedLater(_, _)
FilesAddedLater(w, version_in_work) ==
    LET base == base_version(w).uuid
    IN  IF version_in_work = 0 \/ version_in_work = base THEN <<>>
        ELSE MapPaths(
                 FilterPaths(LAMBDA p :
                     /\ has_file(w, version_in_work, p)
                     /\ ~has_file(w, base, p)
                     /\ get_last_appearance_of_file(w, version_in_work, p) = version_in_work),
                 LAMBDA p : Entry(p, version_in_work))
             \o FilesAddedLater(w, previous_version(w, version_in_work))

\* VersionAgent.files: the effective view, as the sequence the generator yields.
files(w, u) == FilesOfBase(w) \o FilesAddedLater(w, u)

----------------------------------------------------------------------------
(* VersionAgent: copying, removing, migrating *)

\* The is_base_version property: the cached copy of the record.
is_base_version(h) == h.version_config.IsBaseVersion

\* The chain's handle of version u.
HandleOf(w, u) == w.versions[FirstIndex(w.versions, u)]

\* The skip decision of copy_files for one source file: not a base version, a
\* previous version of the file exists, and its digest equals the source's.
\* A variant that skips without comparing the digests:
SkipsFileAlt(w, h, src, p) ==
    ~is_base_version(h) /\ get_previous_version_of_file(w, h.uuid, p) # 0
SkipsFile(w, h, src, p) ==
    LET previous == get_previous_version_of_file(w, h.uuid, p)
    IN  /\ ~is_base_version(h)
        /\ previous # 0
        /\ hash(w.store[previous].files[p]) = hash(src.files[p])

\* A variant that writes every file it copies into the oldest version as well:
copy_filesAlt(w, h, src) ==
    LET Copied(p) == src.files[p] # Absent /\ ~SkipsFile(w, h, src, p)
        oldest == base_version(w).uuid
    IN  [w EXCEPT
            !["store"] =
                [u \in UUIDs |->
                    IF u = h.uuid \/ (u = oldest /\ w.store[u].exists)
                    THEN [exists |-> TRUE,
                          dirs |-> w.store[u].dirs \cup src.dirs,
                          files |-> [p \in PathSet |->
                                       IF Copied(p) THEN src.files[p]
                                       ELSE w.store[u].files[p]]]
                    ELSE w.store[u]]]

\* VersionAgent.copy_files: makedirs for every source directory, then every
\* source file is skipped or copied.
copy_files(w, h, src) ==
    [w EXCEPT !.store[h.uuid] =
        [exists |-> TRUE,
         dirs |-> @.dirs \cup src.dirs,
         files |-> [p \in PathSet |->
                      IF src.files[p] # Absent /\ ~SkipsFile(w, h, src, p)
                      THEN src.files[p]
                      ELSE @.files[p]]]]

RemoveRecord(recs, u) ==
    LET i == CHOOSE k \in 1 .. Len(recs) :
                 recs[k].UUID = u /\ \A j \in 1 .. (k - 1) : recs[j].UUID # u
    IN  SubSeq(recs, 1, i - 1) \o SubSeq(recs, i + 1, Len(recs))

\* A variant that leaves the chain in memory as it was:
removeAlt(w, h, base_version_pardon) ==
    IF ~base_version_pardon /\ is_base_version(h)
    THEN Raise(w, "PermissionError")
    ELSE IF ~HasRecord(get_config(w), h.uuid)
    THEN Raise(w, "IndexError")
    ELSE LET deleted == save_config(w, RemoveRecord(get_config(w), h.uuid))
         IN  IF ~deleted.store[h.uuid].exists
             THEN Raise(deleted, "FileNotFoundError")
             ELSE [deleted EXCEPT !.store[h.uuid] = NoDir]

\* VersionAgent.remove: the record, then the directory, then the reload.
remove(w, h, base_version_pardon) ==
    IF ~base_version_pardon /\ is_base_version(h)
    THEN Raise(w, "PermissionError")
    ELSE IF ~HasRecord(get_config(w), h.uuid)
    THEN Raise(w, "IndexError")
    ELSE LET deleted == save_config(w, RemoveRecord(get_config(w), h.uuid))
         IN  IF ~deleted.store[h.uuid].exists
             THEN Raise(deleted, "FileNotFoundError")
             ELSE load_versions([deleted EXCEPT !.store[h.uuid] = NoDir])

\* The is_base_version setter: writes the flag of the first record with the UUID.
set_is_base_version(w, u, flag) ==
    save_config(w,
        [i \in 1 .. Len(get_config(w)) |->
            IF get_config(w)[i].UUID = u
               /\ \A j \in 1 .. (i - 1) : get_config(w)[j].UUID # u
            THEN [get_config(w)[i] EXCEPT !.IsBaseVersion = flag]
            ELSE get_config(w)[i]])

\* A variant of the move loop that takes the file out of the version before
\* the place it goes to is known to exist:
RECURSIVE MoveFilesAlt(_, _, _, _)
MoveFilesAlt(w, u, next, ps) ==
    IF ps = <<>> THEN w
    ELSE LET p == Head(ps)
         IN  IF has_file(w, next, p) THEN MoveFilesAlt(w, u, next, Tail(ps))
             ELSE IF Parent(p) # "." /\ Parent(p) \notin w.store[next].dirs
             THEN Raise([w EXCEPT !.store[u].files[p] = Absent], "FileNotFoundError")
             ELSE MoveFilesAlt(
                      [w EXCEPT !.store[next].files[p] = w.store[u].files[p],
                                !.store[u].files[p] = Absent],
                      u, next, Tail(ps))

\* The move loop of migrate_to_next_version over the exact files `ps` of
\* version u: shutil.move into the next version, which raises when the
\* directory the file goes to does not exist there.
RECURSIVE MoveFiles(_, _, _, _)
MoveFiles(w, u, next, ps) ==
    IF ps = <<>> THEN w
    ELSE LET p == Head(ps)
         IN  IF has_file(w, next, p) THEN MoveFiles(w, u, next, Tail(ps))
             ELSE IF Parent(p) # "." /\ Parent(p) \notin w.store[next].dirs
             THEN Raise(w, "FileNotFoundError")
             ELSE MoveFiles(
                      [w EXCEPT !.store[next].files[p] = w.store[u].files[p],
                                !.store[u].files[p] = Absent],
                      u, next, Tail(ps))

\* VersionAgent.migrate_to_next_version, on the chain's handle h.
migrate_to_next_version(w, h) ==
    LET next == next_version(w, h.uuid)
        \* the next_version object is the one the command line holds
        held == w.selected_live /\ w.version_selected.uuid = next
        moved == MoveFiles(w, h.uuid, next, exact_files(w, h.uuid))
        flagged == IF is_base_version(h) THEN set_is_base_version(moved, next, TRUE)
                   ELSE moved
        removed == remove(flagged, h, TRUE)
    IN  IF next = 0 THEN Raise(w, "AttributeError")
        ELSE IF moved.err # NoError THEN moved
        ELSE IF removed.err # NoError THEN removed
        ELSE \* next_version.load_config() refreshes that one object
             IF held
             THEN [removed EXCEPT !.version_selected = VersionAgent(removed, next)]
             ELSE removed

----------------------------------------------------------------------------
(* Creating versions and the retention policy *)

\* version.create_version: the record is appended and the chain reloaded, then
\* the directory is made and filled.  u is the uuid4() drawn (not in the chain),
\* t the value of time.time().
create_version(w, is_base, u, t, src) ==
    LET version_record == [UUID |-> u, TimeOfCreation |-> t, IsBaseVersion |-> is_base]
        added == load_versions(save_config(w, Append(get_config(w), version_record)))
        made == IF added.store[u].exists THEN added
                ELSE [added EXCEPT !.store[u] = EmptyDir]
        copied == copy_files(made, HandleOf(made, u), src)
    IN  [copied EXCEPT !.ret = u]

\* A variant that migrates a lone version into nothing, removing it:
migrate_oldest_version_to_baseAlt(w) ==
    IF w.versions = <<>> THEN Raise(w, "IndexError")
    ELSE IF Len(w.versions) = 1 THEN remove(w, base_version(w), TRUE)
    ELSE LET migrated == migrate_to_next_version(w, base_version(w))
         IN  IF migrated.err # NoError THEN migrated ELSE load_versions(migrated)

\* ArchiveAgent.migrate_oldest_version_to_base
migrate_oldest_version_to_base(w) ==
    IF w.versions = <<>> THEN Raise(w, "IndexError")
    ELSE IF Len(w.versions) = 1 THEN w      \* a warning is logged, nothing is raised
    ELSE LET migrated == migrate_to_next_version(w, base_version(w))
         IN  IF migrated.err # NoError THEN migrated ELSE load_versions(migrated)

\* A variant whose loop goes on while a version is left:
RECURSIVE MigrateWhileMoreThanOneAlt(_)
MigrateWhileMoreThanOneAlt(w) ==
    IF w.err # NoError \/ Len(w.versions) < 1 THEN w
    ELSE LET migrated == migrate_to_next_version(w, base_version(w))
         IN  MigrateWhileMoreThanOneAlt(
                 IF migrated.err # NoError THEN migrated ELSE load_versions(migrated))

\* ArchiveAgent.migrate_all_versions_to_base
RECURSIVE MigrateWhileMoreThanOne(_)
MigrateWhileMoreThanOne(w) ==
    IF w.err # NoError \/ Len(w.versions) <= 1 THEN w
    ELSE LET migrated == migrate_to_next_version(w, base_version(w))
         IN  MigrateWhileMoreThanOne(
                 IF migrated.err # NoError THEN migrated ELSE load_versions(migrated))

migrate_all_versions_to_base(w) ==
    IF w.versions = <<>> THEN Raise(w, "IndexError") ELSE MigrateWhileMoreThanOne(w)

\* ArchiveAgent.create_base: base_version is versions[0], never None, so the
\* branch that creates a base version is never taken.
create_base(w) ==
    IF w.versions = <<>> THEN Raise(w, "IndexError")
    ELSE [load_versions(w) EXCEPT !.ret = base_version(w).uuid]

\* The loop of ArchiveAgent.create_version: migrate while the chain is not
\* shorter than the maximum (entered with maximum > 1 only).
\* A variant whose loop stops one version too early:
RECURSIVE MigrateWhileFullAlt(_, _)
MigrateWhileFullAlt(w, maximum) ==
    IF w.err # NoError \/ Len(w.versions) <= maximum THEN w
    ELSE MigrateWhileFullAlt(migrate_oldest_version_to_base(w), maximum)

RECURSIVE MigrateWhileFull(_, _)
MigrateWhileFull(w, maximum) ==
    IF w.err # NoError \/ Len(w.versions) < maximum THEN w
    ELSE MigrateWhileFull(migrate_oldest_version_to_base(w), maximum)

\* A variant that goes on to create the version when the chain is empty:
archive_create_versionAlt(w, maximum, u, t, src) ==
    IF maximum = 1
    THEN IF w.versions = <<>> THEN Raise(w, "IndexError")
         ELSE LET removed == remove(w, base_version(w), FALSE)
                  based == create_base(removed)
              IN  IF removed.err # NoError THEN removed
                  ELSE IF based.err # NoError THEN based
                  ELSE [load_versions(based) EXCEPT !.ret = last_version(based).uuid]
    ELSE LET kept == MigrateWhileFull(w, maximum)
             created == create_version(kept, FALSE, u, t, src)
         IN  IF kept.err # NoError THEN kept
             ELSE [load_versions(created) EXCEPT !.ret = last_version(created).uuid]

\* ArchiveAgent.create_version
archive_create_version(w, maximum, u, t, src) ==
    IF maximum = 1
    THEN IF w.versions = <<>> THEN Raise(w, "IndexError")
         ELSE LET removed == remove(w, base_version(w), FALSE)
                  based == create_base(removed)
              IN  IF removed.err # NoError THEN removed
                  ELSE IF based.err # NoError THEN based
                  ELSE [load_versions(based) EXCEPT !.ret = last_version(based).uuid]
    ELSE LET kept == MigrateWhileFull(w, maximum)
             created == create_version(kept, FALSE, u, t, src)
         IN  IF kept.err # NoError THEN kept
             ELSE IF kept.versions = <<>> THEN Raise(kept, "IndexError")
             ELSE [load_versions(created) EXCEPT !.ret = last_version(created).uuid]

----------------------------------------------------------------------------
(* The command line interface *)

\* CLI.validate_selected_archive_and_version, run after every command: a
\* selected version that is no longer in the chain is dropped.
validate_selected_archive_and_version(w) ==
    IF w.version_selected.uuid # 0
       /\ w.version_selected.uuid \notin ChainUUIDs(w.versions)
    THEN [w EXCEPT !.version_selected = NoVersion, !.selected_live = FALSE]
    ELSE w

\* CLI.loop: the command's effect, then the validation; an exception is
\* caught and printed by CLI.evaluate.
Effect(op, arg, result) ==
    LET w == validate_selected_archive_and_version(result)
    IN  /\ records' = w.records
        /\ store' = w.store
        /\ versions' = w.versions
        /\ version_selected' = w.version_selected
        /\ selected_live' = w.selected_live
        /\ last' = [op |-> op, arg |-> arg, err |-> w.err, ret |-> w.ret]

\* A command run from start to end: it holds no call open.
Command(op, arg, result) == Effect(op, arg, result) /\ frame' = frame

\* The number of keys of archive_config, which CLI.migrate compares the count to.
ArchiveConfigKeys == 5

\* CLI.select version <index>
cli_select(w, index) ==
    IF index > Len(w.versions) THEN Raise(w, "CLICommandError")
    ELSE IF index = Len(w.versions) THEN Raise(w, "IndexError")
    ELSE [w EXCEPT !.version_selected = w.versions[index + 1], !.selected_live = TRUE]

\* CLI.remove version
cli_remove(w) ==
    IF w.version_selected.uuid = 0 THEN Raise(w, "CLICommandError")
    ELSE LET removed == remove(w, w.version_selected, FALSE)
         IN  IF removed.err # NoError THEN removed
             ELSE [removed EXCEPT !.version_selected = NoVersion]

\* The loop of CLI.migrate <count>
RECURSIVE MigrateTimes(_, _)
MigrateTimes(w, n) ==
    IF n = 0 \/ w.err # NoError THEN w
    ELSE MigrateTimes(migrate_oldest_version_to_base(w), n - 1)

\* CLI.migrate <count>
cli_migrate(w, count) ==
    LET index == Len(w.versions) - count      \* versions[-index] is printed first
    IN  IF count >= ArchiveConfigKeys THEN Raise(w, "CLICommandError")
        ELSE IF (index > 0 /\ index > Len(w.versions))
                \/ (index <= 0 /\ (0 - index) >= Len(w.versions))
        THEN Raise(w, "IndexError")
        ELSE MigrateTimes(w, count)

\* CLI.migrate all
cli_migrate_all(w) ==
    IF w.versions = <<>> THEN Raise(w, "IndexError") ELSE migrate_all_versions_to_base(w)

\* uuid.uuid4(), redrawn while the chain has a version of that uuid.  Versions
\* are told apart only by equality of their uuids, so the smallest value that
\* is not in the chain stands for every value that can be drawn.
uuid4(w) ==
    {u \in UUIDs \ ChainUUIDs(w.versions) :
        \A other \in UUIDs \ ChainUUIDs(w.versions) : u <= other}

MaxMigrateCount == 2   \* largest count given to the migrate command

SelectVersion ==
    \E index \in 0 .. Len(versions) :
        /\ Command("select", index, cli_select(World, index))
        /\ UNCHANGED <<source, now, max_number_of_versions,
                       archive_records, archive_dirs>>

RemoveVersion ==
    /\ Command("remove", 0, cli_remove(World))
    /\ UNCHANGED <<source, now, max_number_of_versions,
                   archive_records, archive_dirs>>

\* CLI.create version.  The source directory is read at snapshot time; src is
\* the tree the user has left there since the previous command.
CreateVersion ==
    /\ now < MaxTime
    /\ \E src \in SourceTrees, u \in uuid4(World) :
        /\ source' = src
        /\ now' = now + 1
        /\ Command("create", 0,
                   archive_create_version(World, max_number_of_versions, u, now + 1, src))
    /\ UNCHANGED <<max_number_of_versions, archive_records, archive_dirs>>

Migrate ==
    \E count \in 1 .. MaxMigrateCount :
        /\ Command("migrate", count, cli_migrate(World, count))
        /\ UNCHANGED <<source, now, max_number_of_versions,
                       archive_records, archive_dirs>>

MigrateAll ==
    /\ Command("migrate all", 0, cli_migrate_all(World))
    /\ UNCHANGED <<source, now, max_number_of_versions,
                   archive_records, archive_dirs>>

\* An archive with its base version: the full copy of the source directory
\* that copy_files makes for a base version, loaded by ArchiveAgent.__init__.
\* The source directory is one of trees.
InitOf(trees) ==
    /\ source \in trees
    /\ max_number_of_versions \in 1 .. MaxVersionsLimit
    /\ now = 1
    /\ records = <<[UUID |-> 1, TimeOfCreation |-> 1, IsBaseVersion |-> TRUE]>>
    /\ store = [u \in UUIDs |-> IF u = 1 THEN source ELSE NoDir]
    /\ versions = <<[uuid |-> 1,
                     version_config |->
                         [UUID |-> 1, TimeOfCreation |-> 1, IsBaseVersion |-> TRUE]]>>
    /\ version_selected = NoVersion
    /\ selected_live = FALSE
    /\ last = [op |-> "init", arg |-> 0, err |-> NoError, ret |-> 0]
    /\ frame = NoFrame
    /\ archive_records = RegisteredRecords
    /\ archive_dirs = RegisteredDirs(max_number_of_versions)

Init == InitOf(SourceTrees)

Next ==
    \/ SelectVersion
    \/ RemoveVersion
    \/ CreateVersion
    \/ Migrate
    \/ MigrateAll

Spec == Init /\ [][Next]_vars

----------------------------------------------------------------------------
(* A new archive: AbundantAgent.create_archive *)

\* The archive as archive.create_archive returns it: the archive and meta
\* directories and archive_config.json are written, there is no
\* version_config.json and no version directory, and the chain loaded is empty.
InitFresh ==
    /\ source \in SourceTrees
    /\ max_number_of_versions \in 1 .. MaxVersionsLimit
    /\ now = 1
    /\ records = <<>>
    /\ store = [u \in UUIDs |-> NoDir]
    /\ versions = <<>>
    /\ version_selected = NoVersion
    /\ selected_live = FALSE
    /\ last = [op |-> "init", arg |-> 0, err |-> NoError, ret |-> 0]
    /\ frame = NoFrame
    /\ archive_records = RegisteredRecords
    /\ archive_dirs = RegisteredDirs(max_number_of_versions)

\* The last step of AbundantAgent.create_archive: archive.create_base().
CreateBase ==
    /\ last.op = "init"
    /\ Command("create_base", 0, create_base(World))
    /\ UNCHANGED <<source, now, max_number_of_versions,
                   archive_records, archive_dirs>>

NextFresh ==
    \/ CreateBase
    \/ SelectVersion
    \/ RemoveVersion
    \/ CreateVersion
    \/ Migrate
    \/ MigrateAll

SpecFresh == InitFresh /\ [][NextFresh]_vars

----------------------------------------------------------------------------
(* A single-step migration, one file move at a time *)

Idle == frame.kind = "none"

\* CLI.create version, when no call is in progress.
CreateVersionIdle == Idle /\ CreateVersion

\* migrate_oldest_version_to_base on two or more versions, up to the move
\* loop of migrate_to_next_version: the exact files of the base are walked.
BeginMigration ==
    /\ Idle
    /\ Len(versions) >= 2
    /\ frame' = [NoFrame EXCEPT
                    !.kind = "migrate",
                    !.self = base_version(World).uuid,
                    !.next_version = next_version(World, base_version(World).uuid),
                    !.listed = exact_files(World, base_version(World).uuid)]
    /\ UNCHANGED <<records, store, versions, version_selected, selected_live,
                   source, now, max_number_of_versions, archive_records, archive_dirs, last>>

\* One turn of the move loop: the file is skipped, moved, or the move raises
\* and the migration is over.
MoveFile ==
    /\ frame.kind = "migrate"
    /\ frame.listed # <<>>
    /\ LET p == Head(frame.listed)
           w == MoveFiles(World, frame.self, frame.next_version, <<p>>)
       IN  IF w.err # NoError
           THEN /\ Effect("migrate", 1, w)
                /\ frame' = NoFrame
           ELSE /\ store' = w.store
                /\ frame' = [frame EXCEPT
                                !.listed = Tail(@),
                                !.number_of_file_copied =
                                    IF has_file(World, frame.next_version, p) THEN @ ELSE @ + 1]
                /\ UNCHANGED <<records, versions, version_selected, selected_live, last>>
    /\ UNCHANGED <<source, now, max_number_of_versions,
                   archive_records, archive_dirs>>

\* After the loop: `next_version.is_base_version = True` writes the flag of
\* the next version to version_config.json, when the version migrated is
\* flagged base.  The record of the version migrated is still there.
TransferBaseFlag ==
    /\ frame.kind = "migrate"
    /\ frame.listed = <<>>
    /\ frame.pass = "-"
    /\ records' = IF is_base_version(HandleOf(World, frame.self))
                  THEN set_is_base_version(World, frame.next_version, TRUE).records
                  ELSE records
    /\ frame' = [frame EXCEPT !.pass = "flagged"]
    /\ UNCHANGED <<store, versions, version_selected, selected_live,
                   source, now, max_number_of_versions, archive_records, archive_dirs, last>>

\* Then the version is removed (record, directory, reload) and the chain
\* reloaded.  Every file left in the version is one the next version has and
\* the flag is written, so the operation run here moves and flags nothing.
FinishMigration ==
    /\ frame.kind = "migrate"
    /\ frame.pass = "flagged"
    /\ Effect("migrate", 1, migrate_oldest_version_to_base(World))
    /\ frame' = NoFrame
    /\ UNCHANGED <<source, now, max_number_of_versions,
                   archive_records, archive_dirs>>

NextMigration ==
    \/ CreateVersionIdle
    \/ BeginMigration
    \/ MoveFile
    \/ TransferBaseFlag
    \/ FinishMigration

SpecMigration == Init /\ [][NextMigration]_vars

----------------------------------------------------------------------------
(* A snapshot whose copy loop fails at one source file *)

PathIndex(p) == CHOOSE i \in 1 .. Len(Paths) : Paths[i] = p

\* VersionAgent.copy_files when reading the source file Paths[bad] raises: the
\* directories are made by the first step of the walk, the files before the
\* bad one are skipped or copied, and the exception leaves the loop.
copy_files_raising(w, h, src, bad) ==
    Raise(
        [w EXCEPT !.store[h.uuid] =
            [exists |-> TRUE,
             dirs |-> @.dirs \cup src.dirs,
             files |-> [p \in PathSet |->
                          IF /\ PathIndex(p) < bad
                             /\ src.files[p] # Absent
                             /\ ~SkipsFile(w, h, src, p)
                          THEN src.files[p]
                          ELSE @.files[p]]]],
        "OSError")

\* A variant that undoes the version when the copy fails:
create_version_raisingAlt(w, is_base, u, t, src, bad) == Raise(w, "OSError")

\* version.create_version when copy_files raises: nothing catches it.
create_version_raising(w, is_base, u, t, src, bad) ==
    LET version_record == [UUID |-> u, TimeOfCreation |-> t, IsBaseVersion |-> is_base]
        added == load_versions(save_config(w, Append(get_config(w), version_record)))
        made == IF added.store[u].exists THEN added
                ELSE [added EXCEPT !.store[u] = EmptyDir]
    IN  copy_files_raising(made, HandleOf(made, u), src, bad)

\* ArchiveAgent.create_version when copy_files raises.  With a maximum of one
\* the call never gets as far as the copy.
archive_create_version_raising(w, maximum, u, t, src, bad) ==
    IF maximum = 1 THEN archive_create_version(w, maximum, u, t, src)
    ELSE LET kept == MigrateWhileFull(w, maximum)
         IN  IF kept.err # NoError THEN kept
             ELSE IF kept.versions = <<>> THEN Raise(kept, "IndexError")
             ELSE create_version_raising(kept, FALSE, u, t, src, bad)

\* CLI.create version with a source file that cannot be read.
CreateVersionCopyFails ==
    /\ now < MaxTime
    /\ \E src \in SourceTrees, u \in uuid4(World), bad \in 1 .. Len(Paths) :
        /\ src.files[Paths[bad]] # Absent
        /\ source' = src
        /\ now' = now + 1
        /\ Command("create", bad,
                   archive_create_version_raising(World, max_number_of_versions,
                                                  u, now + 1, src, bad))
    /\ UNCHANGED <<max_number_of_versions, archive_records, archive_dirs>>

NextFaults ==
    \/ CreateVersion
    \/ CreateVersionCopyFails
    \/ Migrate

SpecFaults == Init /\ [][NextFaults]_vars

----------------------------------------------------------------------------
(* The generator VersionAgent.files, resumed one yield at a time *)

\* One step of os.walk over the directory of version u: the regular files of
\* directory d as they are when the step is taken.  A directory that is not
\* there lists nothing: os.walk ignores the error.
Listing(w, u, d) ==
    IF w.store[u].exists /\ (d = "." \/ d \in w.store[u].dirs)
    THEN FilterPaths(LAMBDA p : Parent(p) = d /\ has_file(w, u, p))
    ELSE <<>>

\* The sub-directories the step over the root finds, walked after it.
SubDirs(w, u) == IF w.store[u].exists /\ "d" \in w.store[u].dirs THEN <<"d">> ELSE <<>>

Yielded(f, p, u) == [frame |-> f, err |-> NoError, out |-> Entry(p, u)]
Raised(e) == [frame |-> NoFrame, err |-> e, out |-> Entry("-", 0)]
Exhausted == [frame |-> NoFrame, err |-> NoError, out |-> Entry("-", 0)]

\* The generator run from where it stands to its next yield, its end or an
\* exception, in state w.
RECURSIVE Resume(_, _)
Resume(w, f) ==
    IF f.listed # <<>>
    THEN LET p == Head(f.listed)
             rest == [f EXCEPT !.listed = Tail(@)]
         IN  IF f.pass = "a"
             THEN \* _get_last_appearance_of_file asserts the base has the file
                  IF ~has_file(w, f.base_version, p) THEN Raised("AssertionError")
                  ELSE Yielded(rest, p, get_last_appearance_of_file(w, f.base_version, p))
             ELSE IF has_file(w, f.base_version, p) THEN Resume(w, rest)
             ELSE IF ~has_file(w, f.version_in_work, p) THEN Raised("AssertionError")
             ELSE IF get_last_appearance_of_file(w, f.version_in_work, p) = f.version_in_work
             THEN Yielded(rest, p, f.version_in_work)
             ELSE Resume(w, rest)
    ELSE IF f.dirs # <<>>
    THEN LET u == IF f.pass = "a" THEN f.base_version ELSE f.version_in_work
             d == Head(f.dirs)
         IN  Resume(w, [f EXCEPT
                           !.listed = Listing(w, u, d),
                           !.dirs = IF d = "." THEN SubDirs(w, u) ELSE Tail(@)])
    ELSE IF f.pass = "a"
    THEN \* version_in_work = self
         IF f.self = f.base_version THEN Exhausted
         ELSE Resume(w, [f EXCEPT !.pass = "b", !.version_in_work = f.self,
                                  !.dirs = <<".">>])
    ELSE \* version_in_work = version_in_work.previous_version
         IF w.versions = <<>> THEN Raised("IndexError")
         ELSE LET previous == previous_version(w, f.version_in_work)
              IN  IF previous = 0 \/ previous = f.base_version THEN Exhausted
                  ELSE Resume(w, [f EXCEPT !.version_in_work = previous,
                                           !.dirs = <<".">>])

\* The first next(): base_version is read, then the walk of the base begins.
Start(w, f) ==
    IF w.versions = <<>> THEN Raised("IndexError")
    ELSE Resume(w, [f EXCEPT !.pass = "a", !.base_version = base_version(w).uuid,
                             !.dirs = <<".">>])

\* CLI.select version, when no call is in progress.
SelectVersionIdle == Idle /\ SelectVersion

\* version.files is read for a version of the chain: a generator object, no
\* line of which has run.
BeginFiles ==
    /\ Idle
    /\ \E i \in 1 .. Len(versions) :
           frame' = [NoFrame EXCEPT !.kind = "files", !.pass = "start",
                                     !.self = versions[i].uuid]
    /\ UNCHANGED <<records, store, versions, version_selected, selected_live,
                   source, now, max_number_of_versions, archive_records, archive_dirs, last>>

\* next() on the generator.  `last` tells how the enumeration went when it is
\* over: its argument is 1 when the generator had yielded before.
NextFile ==
    /\ frame.kind = "files"
    /\ LET r == IF frame.pass = "start" THEN Start(World, frame) ELSE Resume(World, frame)
       IN  /\ frame' = r.frame
           /\ last' = IF r.frame = NoFrame
                       THEN [op |-> "files", arg |-> IF frame.pass = "start" THEN 0 ELSE 1,
                             err |-> r.err, ret |-> 0]
                       ELSE last
    /\ UNCHANGED <<records, store, versions, version_selected, selected_live,
                   source, now, max_number_of_versions, archive_records, archive_dirs>>

NextEnumeration ==
    \/ CreateVersionIdle
    \/ SelectVersionIdle
    \/ BeginFiles
    \/ NextFile
    \/ RemoveVersion
    \/ Migrate

\* The archive enumerated holds its base version, a copy of a listed tree.
InitEnumeration == InitOf(ListedTrees)

SpecEnumeration == InitEnumeration /\ [][NextEnumeration]_vars

----------------------------------------------------------------------------
(* ArchiveAgent.create_version, one turn of the retention loop at a time *)

\* The values of max_number_of_versions AbundantAgent.create_archive accepts:
\* it rejects the negative ones only.
AcceptedMaxima == 0 .. MaxVersionsLimit

\* An archive with its base version and any accepted maximum.
InitRetention ==
    /\ source \in SourceTrees
    /\ max_number_of_versions \in AcceptedMaxima
    /\ now = 1
    /\ records = <<[UUID |-> 1, TimeOfCreation |-> 1, IsBaseVersion |-> TRUE]>>
    /\ store = [u \in UUIDs |-> IF u = 1 THEN source ELSE NoDir]
    /\ versions = <<[uuid |-> 1,
                     version_config |->
                         [UUID |-> 1, TimeOfCreation |-> 1, IsBaseVersion |-> TRUE]]>>
    /\ version_selected = NoVersion
    /\ selected_live = FALSE
    /\ last = [op |-> "init", arg |-> 0, err |-> NoError, ret |-> 0]
    /\ frame = NoFrame
    /\ archive_records = RegisteredRecords
    /\ archive_dirs = RegisteredDirs(max_number_of_versions)

\* ArchiveAgent.create_version is called; src is the tree the user has left
\* in the source directory.
BeginCreateVersion ==
    /\ Idle
    /\ now < MaxTime
    /\ \E src \in SourceTrees : source' = src
    /\ frame' = [NoFrame EXCEPT !.kind = "create"]
    /\ UNCHANGED <<records, store, versions, version_selected, selected_live,
                   now, max_number_of_versions, archive_records, archive_dirs, last>>

\* One turn of `while len(self.versions) >= self.max_number_of_versions`:
\* migrate_oldest_version_to_base, whose exception ends the call.  The frame
\* tells an odd turn from an even one, so that a turn is a step also when the
\* migration changes nothing.
RetentionTurn ==
    /\ frame.kind = "create"
    /\ max_number_of_versions # 1
    /\ Len(versions) >= max_number_of_versions
    /\ \E w \in {migrate_oldest_version_to_base(World)} :
           IF w.err # NoError
           THEN /\ Effect("create", 0, w)
                /\ frame' = NoFrame
           ELSE /\ records' = w.records
                /\ store' = w.store
                /\ versions' = w.versions
                /\ version_selected' = w.version_selected
                /\ selected_live' = w.selected_live
                /\ frame' = [frame EXCEPT !.turn = 1 - @]
                /\ last' = last
    /\ UNCHANGED <<source, now, max_number_of_versions,
                   archive_records, archive_dirs>>

\* The rest of the call: with a maximum of one the base is replaced, else the
\* loop is left and the version appended.
AppendVersion ==
    /\ frame.kind = "create"
    /\ IF max_number_of_versions = 1 \/ Len(versions) < max_number_of_versions
       THEN \E u \in uuid4(World) :
                Effect("create", 0,
                       archive_create_version(World, max_number_of_versions, u,
                                              now + 1, source))
       ELSE FALSE
    /\ now' = now + 1
    /\ frame' = NoFrame
    /\ UNCHANGED <<source, max_number_of_versions,
                   archive_records, archive_dirs>>

NextRetention ==
    \/ BeginCreateVersion
    \/ RetentionTurn
    \/ AppendVersion

\* A call that is in its loop runs on: the next turn is taken.
SpecRetention ==
    /\ InitRetention
    /\ [][NextRetention]_vars
    /\ WF_vars(RetentionTurn)

----------------------------------------------------------------------------
(* Loading persisted records of any shape: ArchiveAgent.__init__ *)

MaxLoadRecords == 2   \* most records in a version_config.json that is loaded

NoSource == [exists |-> TRUE, files |-> EmptyFiles, dirs |-> {}]

\* The record lists a version_config.json may hold: UUIDs differ, any
\* creation times, any flags.
RecordLists ==
    UNION {
        {recs \in [1 .. n -> [UUID : 1 .. MaxLoadRecords,
                              TimeOfCreation : 1 .. MaxTime,
                              IsBaseVersion : BOOLEAN]] :
            \A i, j \in 1 .. n : i # j => recs[i].UUID # recs[j].UUID}
        : n \in 0 .. MaxLoadRecords}

\* ArchiveAgent.__init__ before load_versions: versions = [].
InitLoad ==
    /\ records \in RecordLists
    /\ store = [u \in UUIDs |-> IF HasRecord(records, u) THEN EmptyDir ELSE NoDir]
    /\ versions = <<>>
    /\ version_selected = NoVersion
    /\ selected_live = FALSE
    /\ source = NoSource
    /\ now = 1
    /\ max_number_of_versions = MaxVersionsLimit
    /\ last = [op |-> "init", arg |-> 0, err |-> NoError, ret |-> 0]
    /\ frame = NoFrame
    /\ archive_records = RegisteredRecords
    /\ archive_dirs = RegisteredDirs(max_number_of_versions)

\* ArchiveAgent.load_versions, as __init__ and every mutation call it.
LoadVersions ==
    /\ Command("load", 0, load_versions(World))
    /\ UNCHANGED <<source, now, max_number_of_versions,
                   archive_records, archive_dirs>>

NextLoad == LoadVersions

SpecLoad == InitLoad /\ [][NextLoad]_vars

----------------------------------------------------------------------------
(* The registry of archives: AbundantAgent and MasterConfigAgent *)

MaxBelowZero == 1   \* the maxima given to create_archive start at -MaxBelowZero

\* The values of max_number_of_versions given to create_archive, and the
\* uuids of archive records: one more than the directories there are, so that
\* one uuid is never registered.
MaximaGiven == (0 - MaxBelowZero) .. MaxVersionsLimit
ArchiveUUIDs == 1 .. (Cardinality(ArchiveDirs) + 1)

\* ARCHIVE_RECORD_TEMPLATE, which stands for None where a record is looked up.
ARCHIVE_RECORD_TEMPLATE == [SourceDirectory |-> "", ArchiveDirectory |-> "", UUID |-> 0]

\* What the operations of AbundantAgent transform, and what they raised and
\* returned.
Registry ==
    [archive_records |-> archive_records, archive_dirs |-> archive_dirs,
     err |-> NoError, ret |-> 0]

\* MasterConfigAgent.get_archive_record: the first record that matches every
\* restraint given (0 and "" stand for a restraint left None).
get_archive_record(recs, uuid, source_dir, archive_dir) ==
    LET matching ==
            {i \in 1 .. Len(recs) :
                /\ uuid = 0 \/ uuid = recs[i].UUID
                /\ source_dir = "" \/ source_dir = recs[i].SourceDirectory
                /\ archive_dir = "" \/ archive_dir = recs[i].ArchiveDirectory}
    IN  IF matching = {} THEN ARCHIVE_RECORD_TEMPLATE
        ELSE recs[CHOOSE i \in matching : \A j \in matching : i <= j]

\* uuid.uuid4() in add_archive_record, redrawn while a record has that uuid:
\* the smallest value that is in no record stands for every value drawn.
archive_uuid4(r) ==
    {u \in ArchiveUUIDs :
        /\ get_archive_record(r.archive_records, u, "", "").UUID = 0
        /\ \A other \in ArchiveUUIDs :
               get_archive_record(r.archive_records, other, "", "").UUID = 0 => u <= other}

\* MasterConfigAgent.add_archive_record: the record is appended and saved.
add_archive_record(r, source_dir, archive_dir, u) ==
    [r EXCEPT !.archive_records =
                  Append(@, [SourceDirectory |-> source_dir,
                             ArchiveDirectory |-> archive_dir, UUID |-> u]),
              !.ret = u]

\* archive.create_archive: the archive and meta directories and the archive
\* config are written.  With denied, os.mkdir raises an OSError at the first
\* directory and there is nothing to undo.
archive_create_archive(r, archive_record, algorithm, maximum, denied) ==
    IF denied THEN Raise(r, "OSError")
    ELSE [r EXCEPT !.archive_dirs[archive_record.ArchiveDirectory] =
                       ArchiveDirOf(archive_record.UUID, archive_record.SourceDirectory,
                                    algorithm, maximum)]

\* The ArchiveAgent that archive.create_archive returns: no version record,
\* no version directory, an empty chain.
NewArchive ==
    [records |-> <<>>, store |-> [u \in UUIDs |-> NoDir], versions |-> <<>>,
     version_selected |-> NoVersion, selected_live |-> FALSE,
     err |-> NoError, ret |-> 0]

\* AbundantAgent.create_archive.  MasterConfigAgent has no method
\* remove_archive_record: the handler of the OSError raises AttributeError
\* and the record stays.
create_archive(r, source_dir, archive_dir, algorithm, maximum, u, denied) ==
    IF ~SourceDirExists(source_dir) THEN Raise(r, "FileNotFoundError")
    ELSE IF ~r.archive_dirs[archive_dir].exists THEN Raise(r, "FileNotFoundError")
    ELSE IF get_archive_record(r.archive_records, 0, "", archive_dir).UUID # 0
    THEN Raise(r, "FileNotFoundError")
    ELSE IF algorithm \notin VALID_ALGORITHMS THEN Raise(r, "NotImplementedError")
    ELSE IF maximum < 0 THEN Raise(r, "ValueError")
    ELSE LET added == add_archive_record(r, source_dir, archive_dir, u)
             created ==
                 archive_create_archive(
                     added, get_archive_record(added.archive_records, u, "", ""),
                     algorithm, maximum, denied)
         IN  IF created.err # NoError THEN Raise(created, "AttributeError")
             ELSE Raise(created, create_base(NewArchive).err)

\* ArchiveAgent.remove: shutil.rmtree(archive_dir).
archive_remove(r, archive_dir) == [r EXCEPT !.archive_dirs[archive_dir] = NoArchiveDir]

\* AbundantAgent.remove_archive(uuid): get_archive returns None for a uuid
\* that has no record, and None has no remove; ArchiveAgent.__init__ raises
\* where there is no archive config; after archive.remove() the call of
\* master_config.remove_archive_record raises AttributeError.
remove_archive(r, uuid) ==
    LET archive_record == get_archive_record(r.archive_records, uuid, "", "")
    IN  IF archive_record.UUID = 0 THEN Raise(r, "AttributeError")
        ELSE IF ConfigFile \notin r.archive_dirs[archive_record.ArchiveDirectory].entries
        THEN Raise(r, "FileNotFoundError")
        ELSE Raise(archive_remove(r, archive_record.ArchiveDirectory), "AttributeError")

\* No archive is registered and none is selected; each directory that may be
\* given as an archive directory exists, empty, or does not.
InitRegistry ==
    /\ source = NoSource
    /\ max_number_of_versions = ARCHIVE_CONFIG_TEMPLATE.MaxNumberOfVersions
    /\ now = 1
    /\ records = <<>>
    /\ store = [u \in UUIDs |-> NoDir]
    /\ versions = <<>>
    /\ version_selected = NoVersion
    /\ selected_live = FALSE
    /\ last = [op |-> "init", arg |-> 0, err |-> NoError, ret |-> 0]
    /\ frame = NoFrame
    /\ archive_records = <<>>
    /\ archive_dirs \in [ArchiveDirs -> {NoArchiveDir, EmptyArchiveDir}]

\* A call of AbundantAgent: its effect on the registry and the directories.
RegistryEffect(op, arg, r) ==
    /\ archive_records' = r.archive_records
    /\ archive_dirs' = r.archive_dirs
    /\ last' = [op |-> op, arg |-> arg, err |-> r.err, ret |-> r.ret]
    /\ UNCHANGED <<records, store, versions, version_selected, selected_live,
                   source, now, max_number_of_versions, frame>>

CreateArchive ==
    \E source_dir \in SourceDirs, archive_dir \in ArchiveDirs, algorithm \in Algorithms,
       maximum \in MaximaGiven, denied \in BOOLEAN, u \in archive_uuid4(Registry) :
        RegistryEffect("create_archive", maximum,
                       create_archive(Registry, source_dir, archive_dir, algorithm,
                                      maximum, u, denied))

RemoveArchive ==
    \E uuid \in ArchiveUUIDs :
        RegistryEffect("remove_archive", uuid, remove_archive(Registry, uuid))

NextRegistry ==
    \/ CreateArchive
    \/ RemoveArchive

SpecRegistry == InitRegistry /\ [][NextRegistry]_vars

----------------------------------------------------------------------------
(* Notions the claims are stated in, read off the state directly *)

Indices(seq) == 1 .. Len(seq)
Min(a, b) == IF a <= b THEN a ELSE b
UUIDsOf(hs) == [i \in Indices(hs) |-> hs[i].uuid]
RecordUUIDs(recs) == [i \in Indices(recs) |-> recs[i].UUID]
FlagOf(recs, u) == \E i \in Indices(recs) : recs[i].UUID = u /\ recs[i].IsBaseVersion
BaseRecords(recs) == {i \in Indices(recs) : recs[i].IsBaseVersion}
OldestRecords(recs) ==
    {i \in Indices(recs) :
        \A j \in Indices(recs) : recs[i].TimeOfCreation <= recs[j].TimeOfCreation}

\* The chain, positions 1 (oldest) .. n, and what a version directory stores.
Chain == versions
Stores(u, p) == store[u].exists /\ store[u].files[p] # Absent
ContentIn(u, p) == store[u].files[p]

\* The positions at or before position k whose version stores path p.
OwnersUpTo(k, p) == {i \in 1 .. k : Stores(Chain[i].uuid, p)}
Latest(S) == CHOOSE i \in S : \A j \in S : j <= i

\* The entries one enumeration of an effective view yields for path p.
EntriesFor(view, p) == {i \in Indices(view) : view[i].path = p}

\* A version was created by the last command; it is the latest of the chain.
Created == last.op = "create" /\ last.err = NoError
SourceFiles == {p \in PathSet : source.files[p] # Absent}
NewVersion == Chain[Len(Chain)].uuid
ViewOfNew == files(World, NewVersion)

\* The step ran one single-step migration: migrate 1 on a chain of two or more
\* versions.  B is the oldest version before the step, N the next oldest.
SingleStepMigration == last'.op = "migrate" /\ last'.arg = 1 /\ Len(versions) >= 2
VersionB == versions[1].uuid
VersionN == versions[2].uuid

----------------------------------------------------------------------------
(* The claims *)

\* C1: after any sequence of create-version, remove-version and migrate
\* commands on an archive that started with one valid base version, exactly
\* one version is flagged base and it is the one created first.
C1_OneBaseAndItIsOldest ==
    /\ Cardinality(BaseRecords(records)) = 1
    /\ BaseRecords(records) \subseteq OldestRecords(records)

\* C2: resolution completeness.  The effective view of every version V of the
\* chain holds exactly one entry for each path stored by the base or by a
\* version at or before V, and none for a path no version up to V stores.
C2_ResolutionCompleteness ==
    \A k \in Indices(Chain) : \A p \in PathSet :
        Cardinality(EntriesFor(files(World, Chain[k].uuid), p))
            = IF OwnersUpTo(k, p) # {} THEN 1 ELSE 0

\* C3: for every version V and every path the base stores, the effective view
\* of V resolves the path to the most recent version in [base, V] storing it,
\* never to a version created after V.
C3_ResolvesWithinRange ==
    \A k \in Indices(Chain) : \A p \in PathSet :
        Stores(Chain[1].uuid, p) =>
            \A i \in EntriesFor(files(World, Chain[k].uuid), p) :
                files(World, Chain[k].uuid)[i].version = Chain[Latest(OwnersUpTo(k, p))].uuid

C6_CompactionConservation ==
    [][SingleStepMigration =>
        \A V \in ChainUUIDs(versions') :
            \A i \in Indices(files(World, V)) :
                LET before == files(World, V)[i]
                    after == files(World', V)
                IN  /\ EntriesFor(after, before.path) # {}
                    /\ \A j \in EntriesFor(after, before.path) :
                           store'[after[j].version].files[before.path]
                               = store[before.version].files[before.path]]_vars

\* C7: remove() without the compaction override, called on a handle of the
\* version that is the archive's base, is rejected with an error and leaves
\* the persisted chain and every version directory as they were, also when
\* the handle was obtained before the version became the base.
C7_BaseRemovalRejected ==
    [][(/\ last'.op = "remove"
        /\ version_selected.uuid # 0
        /\ FlagOf(records, version_selected.uuid))
       => (/\ last'.err = "PermissionError"
           /\ records' = records
           /\ store' = store)]_vars

\* C8: with max_number_of_versions = 1, create_version on a chain of one base
\* version removes the base and writes a fresh base holding every file of the
\* source tree: afterwards the chain is one version, flagged base, and not the
\* version that was there before.
C8_MaxOneReplacesBase ==
    [][(/\ last'.op = "create"
        /\ max_number_of_versions = 1
        /\ Len(records) = 1
        /\ records[1].IsBaseVersion)
       => (/\ last'.err = NoError
           /\ Len(records') = 1
           /\ records'[1].IsBaseVersion
           /\ records'[1].TimeOfCreation # records[1].TimeOfCreation
           /\ store'[records'[1].UUID].exists
           /\ store'[records'[1].UUID].files = source'.files)]_vars

\* C9: with max_number_of_versions > 1, create_version migrates until the
\* chain is shorter than the maximum and then appends one new non-base
\* version as the latest.  After it returns the chain is the min(old length,
\* max - 1) latest versions of before followed by the new one, which is the
\* version returned; the chain never gets longer than the maximum.
C9_RetentionThenAppend ==
    [][(last'.op = "create" /\ max_number_of_versions > 1) =>
        /\ Len(versions') <= max_number_of_versions
        /\ last'.err = NoError =>
            LET kept == Min(Len(versions), max_number_of_versions - 1)
                old == UUIDsOf(versions)
                new == versions'[Len(versions')]
            IN  /\ Len(versions') = kept + 1
                /\ UUIDsOf(versions')
                     = Append(SubSeq(old, Len(old) - kept + 1, Len(old)), new.uuid)
                /\ RecordUUIDs(records') = UUIDsOf(versions')
                /\ last'.ret = new.uuid
                /\ ~new.version_config.IsBaseVersion
                /\ ~FlagOf(records', new.uuid)
                /\ new.version_config.TimeOfCreation = now'
                /\ \A i \in Indices(versions) :
                       versions[i].version_config.TimeOfCreation < now']_vars

\* A version appended by a create_version that first migrated the base away.
C9_Witness ==
    /\ Created
    /\ max_number_of_versions > 1
    /\ Len(Chain) = max_number_of_versions
    /\ records[1].TimeOfCreation > 1
    /\ last.ret = NewVersion
    /\ records[Len(records)].TimeOfCreation = now

\* C10: a single-step migration on a chain of two or more versions removes
\* exactly the base B from the chain and deletes B's directory; the next
\* version N becomes the base; every other version keeps its place and flag.
C10_MigrationRemovesBase ==
    [][SingleStepMigration =>
        (/\ UUIDsOf(versions') = Tail(UUIDsOf(versions))
         /\ RecordUUIDs(records') = Tail(UUIDsOf(versions))
         /\ ~store'[VersionB].exists
         /\ FlagOf(records', VersionN)
         /\ \A u \in ChainUUIDs(versions) \ {VersionB, VersionN} :
                FlagOf(records', u) = FlagOf(records, u))]_vars

\* A record list that is not a valid chain: no base, several bases, or a base
\* that is not the oldest record.
Corrupt(recs) ==
    ~(Cardinality(BaseRecords(recs)) = 1 /\ BaseRecords(recs) \subseteq OldestRecords(recs))

\* C11: load_versions never completes normally with a chain loaded whose
\* records hold no base version, several base versions, or a base that is not
\* the oldest: it fails with an error.
C11_CorruptChainRejected ==
    (last.op = "load" /\ records # <<>> /\ Corrupt(records)) => last.err # NoError

\* C12: after archive creation, create_base step included, the chain is one
\* version, it is flagged base, and its exact files are the regular files of
\* the source tree, every one copied.
C12_CreationMakesBase ==
    [][last'.op = "create_base" =>
        (/\ last'.err = NoError
         /\ Len(versions') = 1
         /\ Len(records') = 1
         /\ records'[1].IsBaseVersion
         /\ store'[records'[1].UUID].exists
         /\ store'[records'[1].UUID].files = source.files)]_vars

\* C17: asking for a non-base version (a maximum above one) on an archive
\* whose chain is empty raises an error and creates no version record and no
\* version directory.
C17_NoVersionWithoutBase ==
    [][(last'.op = "create" /\ versions = <<>> /\ max_number_of_versions > 1) =>
        (/\ last'.err # NoError
         /\ records' = records
         /\ store' = store
         /\ versions' = <<>>)]_vars

\* A creation was asked of an archive without versions, and was refused.
C17_Witness ==
    /\ last.op = "create"
    /\ last.err = "IndexError"
    /\ max_number_of_versions > 1
    /\ versions = <<>>
    /\ records = <<>>
    /\ \E p \in PathSet : source.files[p] # Absent

\* C13: full collapse of a chain of one or more versions ends with exactly
\* one version left, the one that was the latest before the call, flagged base.
C13_CollapseLeavesLatest ==
    [][(last'.op = "migrate all" /\ Len(versions) >= 1) =>
        (/\ last'.err = NoError
         /\ UUIDsOf(versions') = <<versions[Len(versions)].uuid>>
         /\ RecordUUIDs(records') = UUIDsOf(versions')
         /\ records'[1].IsBaseVersion)]_vars

\* C14: idempotence of full collapse.  On a chain of exactly one version it
\* returns normally and changes nothing: the same version, flag, files and
\* content.  After any full collapse a second one changes nothing and ends as
\* the first did.
C14_CollapseIdempotent ==
    [][last'.op = "migrate all" =>
        /\ Len(versions) = 1 =>
              /\ last'.err = NoError
              /\ records' = records
              /\ store' = store
              /\ versions' = versions
        /\ LET again == cli_migrate_all(World')
           IN  /\ again.records = records'
               /\ again.store = store'
               /\ again.versions = versions'
               /\ again.err = last'.err]_vars

\* Full collapse ran on a chain that never had more than its base version.
C14_Witness ==
    /\ last.op = "migrate all"
    /\ last.err = NoError
    /\ now = 1
    /\ Len(Chain) = 1
    /\ records[1].IsBaseVersion
    /\ \E p \in PathSet : Stores(Chain[1].uuid, p)

\* C15: single-step migration on a chain of exactly one version fails with
\* an error the caller observes.
C15_LoneMigrationFails ==
    [][(last'.op = "migrate" /\ last'.arg = 1 /\ Len(versions) = 1) =>
        last'.err # NoError]_vars

\* C16: single-step migration when only the base version exists leaves the
\* chain, the base flag and the files of the base directory as they were.
C16_LoneMigrationChangesNothing ==
    [][(last'.op = "migrate" /\ last'.arg = 1 /\ Len(versions) = 1) =>
        (/\ records' = records
         /\ store' = store
         /\ versions' = versions)]_vars

\* A single-step migration ran on an archive that only ever had its base.
C16_Witness ==
    /\ last.op = "migrate"
    /\ last.arg = 1
    /\ now = 1
    /\ Len(Chain) = 1
    /\ Len(records) = 1
    /\ records[1].IsBaseVersion
    /\ \E p \in PathSet : Stores(Chain[1].uuid, p)

\* C18: at every point of a single-step migration of B into N, between two
\* file moves and between the last move and the deletion of B's directory,
\* every path stored in B or N is still stored in B or N after the next step,
\* also a step that raises; B's directory is deleted only when N stores
\* every path B stores, and then N stores every path the two stored.
C18_NoFileInNeither ==
    [][frame.kind = "migrate" =>
        LET B == frame.self
            N == frame.next_version
        IN  /\ \A p \in PathSet :
                   (Stores(B, p) \/ Stores(N, p)) =>
                       \/ store'[B].exists /\ store'[B].files[p] # Absent
                       \/ store'[N].exists /\ store'[N].files[p] # Absent
            /\ (store[B].exists /\ ~store'[B].exists) =>
                   \A p \in PathSet : Stores(B, p) => Stores(N, p)]_vars

\* A migration between two file moves: one file is moved, one is to come.
C18_Witness ==
    /\ frame.kind = "migrate"
    /\ frame.number_of_file_copied >= 1
    /\ frame.listed # <<>>
    /\ Stores(frame.self, Head(frame.listed))
    /\ ~Stores(frame.next_version, Head(frame.listed))

\* C19: when the copy fails partway through populating a new version, the
\* operation ends with the error; the files copied before stay in the new
\* version's directory and its record stays in the persisted chain; no other
\* version's directory, record or flag differs from what the retention
\* migrations before the snapshot left.
C19_CopyFailureKeepsPartialVersion ==
    [][(last'.op = "create" /\ last'.err = "OSError") =>
        LET kept == MigrateWhileFull(World, max_number_of_versions)
            new == records'[Len(records')]
            Older(p) == {i \in 1 .. (Len(versions') - 1) :
                            /\ store'[versions'[i].uuid].exists
                            /\ store'[versions'[i].uuid].files[p] # Absent}
            Unchanged(p) ==
                /\ Older(p) # {}
                /\ hash(store'[versions'[Latest(Older(p))].uuid].files[p])
                     = hash(source'.files[p])
        IN  /\ records' = Append(kept.records, new)
            /\ new.UUID \notin ChainUUIDs(kept.versions)
            /\ ~new.IsBaseVersion
            /\ UUIDsOf(versions') = Append(UUIDsOf(kept.versions), new.UUID)
            /\ \A u \in UUIDs \ {new.UUID} : store'[u] = kept.store[u]
            /\ store'[new.UUID].exists
            /\ \A p \in PathSet :
                   store'[new.UUID].files[p] =
                       IF /\ PathIndex(p) < last'.arg
                          /\ source'.files[p] # Absent
                          /\ ~Unchanged(p)
                       THEN source'.files[p]
                       ELSE Absent]_vars

\* A snapshot failed at its second file, after the first was copied, in a
\* call that first migrated the base away.
C19_Witness ==
    /\ last.op = "create"
    /\ last.err = "OSError"
    /\ last.arg >= 2
    /\ records[1].TimeOfCreation > 1
    /\ \E p \in PathSet : Stores(records[Len(records)].UUID, p)

\* C20: an enumeration of an effective view that has yielded, with a
\* migration or a removal run between two of its steps, never ends with an
\* error or an assertion failure.
C20_EnumerationNeverRaises ==
    (last.op = "files" /\ last.arg = 1) => last.err = NoError

\* C21: for every version V of every reachable chain, one enumeration of V's
\* effective view yields no relative path more than once.
C21_NoPathTwice ==
    \A k \in Indices(Chain) :
        LET view == files(World, Chain[k].uuid)
        IN  \A p \in PathSet : Cardinality(EntriesFor(view, p)) <= 1

\* The view of a version that is not the base, on a chain of three versions
\* of which two store the same path: the path is listed, once.
C21_Witness ==
    /\ Len(Chain) = 3
    /\ \E p \in PathSet :
           /\ Cardinality({i \in Indices(Chain) : Stores(Chain[i].uuid, p)}) >= 2
           /\ Cardinality(EntriesFor(files(World, Chain[3].uuid), p)) = 1

\* C22: in every persisted state of an archive, the states inside a
\* single-step migration (between the transfer of the base flag to N and the
\* removal of B's record) included, exactly one version record is flagged base.
C22_OneBaseInEveryPersistedState == Cardinality(BaseRecords(records)) = 1

\* The chain hs holds the versions of the records recs, oldest first, each
\* with the flag its record has.
ChainMatchesRecords(hs, recs) ==
    /\ Len(hs) = Len(recs)
    /\ \A i, j \in Indices(hs) : i # j => hs[i].uuid # hs[j].uuid
    /\ \A i \in Indices(hs) :
           /\ HasRecord(recs, hs[i].uuid)
           /\ hs[i].version_config.IsBaseVersion = FlagOf(recs, hs[i].uuid)
    /\ \A i, j \in Indices(hs) :
           i < j => FirstRecord(recs, hs[i].uuid).TimeOfCreation
                      <= FirstRecord(recs, hs[j].uuid).TimeOfCreation

\* C23: after every completed structural change (create version, remove
\* version, single-step migration) the chain in memory equals the persisted
\* records sorted by creation time: the same UUIDs in that order and the same
\* is-base flag for each version.
C23_ChainEqualsRecords ==
    (last.op \in {"create", "remove", "migrate"} /\ last.err = NoError)
        => ChainMatchesRecords(versions, records)

\* A version in the middle of a chain of three has been removed.
C23_Witness ==
    /\ last.op = "remove"
    /\ last.err = NoError
    /\ Len(records) = 2
    /\ Len(Chain) = 2
    /\ records[2].TimeOfCreation - records[1].TimeOfCreation = 2

\* C24: on a chain v0..vn sorted by creation time, previous(vi) is v(i-1) for
\* i > 0 and none for v0, the base; next(vi) is v(i+1) for i < n and none for
\* vn; so next(previous(v)) = v for every v but the base and
\* previous(next(v)) = v for every v but the latest.
C24_Neighbours ==
    \A i \in Indices(Chain) :
        LET v == Chain[i].uuid
            n == Len(Chain)
        IN  /\ previous_version(World, v) = IF i > 1 THEN Chain[i - 1].uuid ELSE 0
            /\ next_version(World, v) = IF i < n THEN Chain[i + 1].uuid ELSE 0
            /\ i > 1 => next_version(World, previous_version(World, v)) = v
            /\ i < n => previous_version(World, next_version(World, v)) = v

\* A chain of three versions: the one in the middle has both neighbours.
C24_Witness ==
    /\ Len(Chain) = 3
    /\ Chain[1].version_config.IsBaseVersion
    /\ previous_version(World, Chain[2].uuid) = Chain[1].uuid
    /\ next_version(World, Chain[2].uuid) = Chain[3].uuid

\* The effective view of the version at position k lists path p once,
\* resolved to the version at position m.
ListedFrom(view, p, m) ==
    /\ Cardinality(EntriesFor(view, p)) = 1
    /\ \A i \in EntriesFor(view, p) : view[i].version = Chain[m].uuid
ListsFrom(k, p, m) == ListedFrom(files(World, Chain[k].uuid), p, m)

\* C25: deletions are not tracked.  A version created when a path stored in
\* an older version is gone from the source tree lists the path in its
\* effective view, resolved to the last stored copy; so does, at any later
\* time, every version after which no copy of the path was stored.
C25_DeletionsNotTracked ==
    /\ Created =>
           LET view == ViewOfNew
           IN  \A p \in PathSet \ SourceFiles :
                   OwnersUpTo(Len(Chain) - 1, p) # {}
                       => ListedFrom(view, p, Latest(OwnersUpTo(Len(Chain) - 1, p)))
    /\ \A k \in Indices(Chain) :
           LET view == files(World, Chain[k].uuid)
           IN  \A p \in PathSet :
                   (/\ OwnersUpTo(k, p) # {}
                    /\ \A j \in Indices(Chain) : j > k => ~Stores(Chain[j].uuid, p))
                       => ListedFrom(view, p, Latest(OwnersUpTo(k, p)))

\* A version created after a path was deleted from the source tree, the path
\* being stored by a version that is not the base.
C25_Witness ==
    /\ Created
    /\ Len(Chain) = 3
    /\ \E p \in PathSet \ SourceFiles :
           /\ Stores(Chain[2].uuid, p)
           /\ ~Stores(Chain[1].uuid, p)
           /\ ListsFrom(3, p, 2)

\* C26: after a single-step migration of B into N, the exact files of N are
\* those N had and those B had: a path both stored keeps N's copy, B's older
\* copy never overwriting it; a path only B stored is in N with B's content.
C26_MigrationMergesFiles ==
    [][SingleStepMigration =>
        (/\ store'[VersionN].exists
         /\ \A p \in PathSet :
                store'[VersionN].files[p] =
                    IF Stores(VersionN, p) THEN ContentIn(VersionN, p)
                    ELSE IF Stores(VersionB, p) THEN ContentIn(VersionB, p)
                    ELSE Absent)]_vars

\* The call has left the retention loop, or never enters it.
LoopLeft == max_number_of_versions = 1 \/ Len(versions) < max_number_of_versions

\* C27: ArchiveAgent.create_version terminates, returning or raising, for
\* every max_number_of_versions that create_archive accepts: the retention
\* loop is left after finitely many turns.
C27_RetentionLoopExits == (frame.kind = "create") ~> (frame.kind = "none" \/ LoopLeft)

\* The content the effective view of version u gives path p, Absent when the
\* view does not list the path.
ViewContent(u, p) ==
    LET view == files(World, u)
    IN  IF EntriesFor(view, p) = {} THEN Absent
        ELSE store[view[CHOOSE i \in EntriesFor(view, p) : TRUE].version].files[p]

\* C28: after full collapse of a chain, the exact files of the one version
\* left equal, in path set and content, the effective view the latest version
\* had right before the collapse.
C28_CollapseKeepsLatestView ==
    [][(last'.op = "migrate all" /\ Len(versions) >= 1) =>
        (/\ Len(versions') = 1
         /\ store'[versions'[1].uuid].exists
         /\ \A p \in PathSet :
                store'[versions'[1].uuid].files[p]
                    = ViewContent(versions[Len(versions)].uuid, p))]_vars

\* C29: removing a non-base version R never changes the effective view of a
\* version that survives: every path in the view of a surviving version V
\* before the removal is in V's view afterwards, with equal content.
C29_RemovalKeepsOtherViews ==
    [][(/\ last'.op = "remove"
        /\ last'.err = NoError
        /\ ~FlagOf(records, version_selected.uuid))
       => \A V \in ChainUUIDs(versions') : \A p \in PathSet :
              ViewContent(V, p) # Absent => ViewContent(V, p)' = ViewContent(V, p)]_vars

\* The versions a step took out of the chain, and the versions that were B
\* or N of a single-step migration the step ran (a migrate command, or the
\* retention loop of a creation with a maximum above one): the oldest ones,
\* one more than the step took out, and one more again when a migration was
\* cut short by an error after some file moves.
Gone == ChainUUIDs(versions) \ ChainUUIDs(versions')
MigratedInStep ==
    IF \/ last'.op \notin {"migrate", "migrate all", "create"}
       \/ last'.op = "create" /\ max_number_of_versions = 1
       \/ Len(versions) < 2
    THEN {}
    ELSE LET cut == IF last'.err = "FileNotFoundError" THEN 1 ELSE 0
             n == Cardinality(Gone) + cut
         IN  IF n = 0 THEN {}
             ELSE {versions[i].uuid : i \in 1 .. Min(Len(versions), n + 1)}

RemovedInStep == {u \in UUIDs : HasRecord(records, u) /\ ~HasRecord(records', u)}
NeighboursOf(u) == {previous_version(World, u), next_version(World, u)}

\* C31: after a version has been removed (directly or by migration) and the
\* chain reloaded, previous_version and next_version computed from any
\* surviving version never return the removed version: they return a member
\* of the current chain or none.
C31_NoDanglingNeighbour ==
    [][(RemovedInStep # {} /\ ChainMatchesRecords(versions', records'))
          => \A u \in ChainUUIDs(versions') :
                 /\ NeighboursOf(u)' \cap RemovedInStep = {}
                 /\ NeighboursOf(u)' \subseteq ChainUUIDs(versions') \cup {0}]_vars

\* The version in the middle of a chain of three has been removed: the
\* versions left are each other's neighbours.
C31_Witness ==
    /\ last.op = "remove"
    /\ last.err = NoError
    /\ UUIDsOf(Chain) = <<1, 3>>
    /\ ~HasRecord(records, 2)
    /\ previous_version(World, 3) = 1
    /\ next_version(World, 1) = 3

\* C32: AbundantAgent.create_archive rejects, with an error and without
\* adding a registry record or creating any directory, every
\* max_number_of_versions under which fewer than one version would be kept,
\* that is every value below 1.
C32_RejectsMaximaBelowOne ==
    [][(last'.op = "create_archive" /\ last'.arg < 1)
          => /\ last'.err # NoError
             /\ archive_records' = archive_records
             /\ archive_dirs' = archive_dirs]_vars

\* The archive of record i is registered and stored: its directory holds the
\* archive config that create_archive wrote for it.
StoredArchive(i) ==
    /\ i \in 1 .. Len(archive_records)
    /\ ConfigFile \in archive_dirs[archive_records[i].ArchiveDirectory].entries

\* C33: after AbundantAgent.remove_archive(uuid) on a registered archive, the
\* archive's storage directory is deleted and the registry no longer holds a
\* record for that uuid (the lookup by uuid returns none); no state is
\* reachable in which the storage directory has been deleted while its
\* registry record remains.
C33_RemovalDropsDirectoryAndRecord ==
    [][\A i \in 1 .. Len(archive_records) :
          (/\ StoredArchive(i)
           /\ last'.op = "remove_archive"
           /\ last'.arg = archive_records[i].UUID)
              => /\ ~archive_dirs'[archive_records[i].ArchiveDirectory].exists
                 /\ get_archive_record(archive_records', archive_records[i].UUID, "", "").UUID = 0
                 /\ \A j \in 1 .. Len(archive_records') :
                        archive_dirs'[archive_records'[j].ArchiveDirectory].exists]_vars

\* C34: the command `migrate <count>` is rejected ('Cannot migrate more
\* versions than current present ones', a CLICommandError) whenever count is
\* at least the number of versions of the chain, and changes nothing then;
\* otherwise it performs exactly count single-step migrations, each of which
\* removes one version, so that the chain gets shorter by exactly count.
C34_MigrateCountChecked ==
    [][last'.op = "migrate" =>
          IF last'.arg >= Len(versions)
          THEN /\ last'.err = "CLICommandError"
               /\ records' = records
               /\ store' = store
               /\ versions' = versions
          ELSE /\ last'.err = NoError
               /\ Len(versions') = Len(versions) - last'.arg
               /\ Len(records') = Len(records) - last'.arg]_vars

====
